---- MODULE Spec2Model ----
(***************************************************************************)
(* State-machine model of EditorModel (src/src/editor/model/Editor.js):    *)
(* module registry, start-up and tear-down, readiness flags, the debounced *)
(* change counter and the store/load coordination with the storage         *)
(* backend.                                                                *)
(*                                                                         *)
(* The JavaScript run is single threaded.  One action of this module is    *)
(* one synchronous handler run: a call made from outside, a timer          *)
(* callback taken from the head of the timer queue, or a completion        *)
(* callback of the storage backend.  Everything a handler calls            *)
(* synchronously (Backbone change listeners included) is part of the same  *)
(* action.                                                                 *)
(***************************************************************************)
EXTENDS Integers, Sequences, FiniteSets, TLC

\* ------------------------------------------------------------------ bounds
MaxBurst == 2        \* qualifying notifications coalesced into one pending timer
MaxCount == 2        \* largest value of changesCount explored
MaxInflight == 1     \* backend requests in flight at once
MaxStart == 1        \* deferred start-up callbacks pending at once
MaxSkip == 1         \* calls made by the callback handed to skip()
MaxSteps == 2        \* largest stepsBeforeSave configured
MaxTargets == 2      \* longest array of targets handed to a selection call

VARIABLES
  deps,            \* the registration order of the modules (Editor.js:11-34)
  config,          \* storage manager configuration the editor consults
  attributes,      \* names of the Backbone attributes that are set on the model
  modules,         \* attribute 'modules'
  toLoad,          \* attribute 'toLoad'
  storables,       \* attribute 'storables'
  changesCount,    \* attribute 'changesCount'
  readyLoad,       \* attribute 'readyLoad'
  readyCanvas,     \* attribute 'readyCanvas'
  ready,           \* attribute 'ready'
  shallow,         \* attribute 'shallow': the secondary editor instance
  destroyed,       \* this.destroyed
  skipFlag,        \* this.__skip
  onbeforeunload,  \* window.onbeforeunload is armed
  timers,          \* the browser's queue of pending setTimeout callbacks
  inflight,        \* storage backend requests not yet completed
  started,         \* loadOnStart() was called since the last initialize()
  thrown,          \* an uncaught TypeError left the last handler
  calls,           \* module methods invoked by the last handler, in order
  startLog,        \* start-up events since the last initialize(), in order
  burst,           \* qualifying notifications folded into the pending timer
  updates,         \* 'update' emissions since changesCount last changed
  lastOp,          \* the callback the last handler was, or a notification it ignored
  doc,             \* the entities of the document: which are selectable, hoverable
  multipleSelection, \* config.multipleSelection
  selected,        \* attribute 'selected': the components of the Selected collection
  componentHovered, \* attribute 'componentHovered'
  events,          \* notifications triggered by the last selection or hover call
  peer             \* a second editor instance of the page: its change tracker

\* the state of the Selection Manager
selVars == <<doc, multipleSelection, selected, componentHovered, events>>

vars == <<deps, config, attributes, modules, toLoad, storables, changesCount,
          readyLoad, readyCanvas, ready, shallow, destroyed, skipFlag,
          onbeforeunload, timers, inflight, started, thrown, calls, startLog,
          burst, updates, lastOp, doc, multipleSelection, selected,
          componentHovered, events, peer>>

\* ------------------------------------------------------- module contracts
\* Representatives of the modules of `deps`, by Mod.name.
ModuleNames == {"StorageManager", "AssetManager", "CssComposer", "DomComponents"}

\* The capabilities each module exposes (module contract, spec section 6).
ModuleCaps ==
  [StorageManager |-> [storageKey |-> FALSE, store |-> TRUE, load |-> TRUE,
                       onLoad |-> FALSE, postLoad |-> TRUE],
   AssetManager   |-> [storageKey |-> TRUE, store |-> TRUE, load |-> TRUE,
                       onLoad |-> TRUE, postLoad |-> FALSE],
   CssComposer    |-> [storageKey |-> TRUE, store |-> TRUE, load |-> TRUE,
                       onLoad |-> TRUE, postLoad |-> TRUE],
   DomComponents  |-> [storageKey |-> TRUE, store |-> TRUE, load |-> TRUE,
                       onLoad |-> TRUE, postLoad |-> TRUE]]

\* What m.store(1) returns: a plain object, storage key -> value.  The key
\* "shared" is written by every storable module; "undefined" is the
\* JavaScript value undefined.
ModuleStore ==
  [StorageManager |-> [k \in {} |-> "undefined"],
   AssetManager   |-> [k \in {"assets", "shared", "tmp"} |->
                         IF k = "tmp" THEN "undefined" ELSE "AssetManager"],
   CssComposer    |-> [k \in {"styles", "shared"} |-> "CssComposer"],
   DomComponents  |-> [k \in {"components", "shared"} |-> "DomComponents"]]

\* Mod.name.charAt(0).toLowerCase() + Mod.name.slice(1)
LowerFirst(n) ==
  CASE n = "StorageManager" -> "storageManager"
    [] n = "AssetManager"   -> "assetManager"
    [] n = "CssComposer"    -> "cssComposer"
    [] n = "DomComponents"  -> "domComponents"

\* The order of the representatives in the `deps` array of the source.
SourceDeps == <<"StorageManager", "AssetManager", "CssComposer", "DomComponents">>

\* Every registration order of the modules.
Orders ==
  {s \in [1..Cardinality(ModuleNames) -> ModuleNames] :
     \A i, j \in DOMAIN s : i # j => s[i] # s[j]}

\* The option keys of a mutation notification that Editor.js reads, and one
\* key ("other") it passes through untouched.
OptKeys == {"temporary", "noCount", "avoidStore", "unset", "other"}
Opts == {{}, {"temporary"}, {"noCount"}, {"avoidStore"}, {"unset", "other"}}

\* ---------------------------------------------------------------- helpers
Has(a) == a \in attributes

Reverse(s) == [i \in 1..Len(s) |-> s[Len(s) + 1 - i]]

Call(method, s) == [i \in 1..Len(s) |-> [method |-> method, mod |-> s[i]]]

Having(cap, s) == SelectSeq(s, LAMBDA m : ModuleCaps[m][cap])

\* clearTimeout of the handle kept for timers of one kind
clearTimeout(q, kind) == SelectSeq(q, LAMBDA t : t.kind # kind)

\* the editor instances: `this` in a callback
Main == "main"
Peer == "peer"

\* a pending callback: its kind, the options its closure captured, for a
\* start-up whether it belongs to the current run of initialize() ("cur")
\* or to one before a destroyAll() ("old"), "none" otherwise, and the
\* instance its closure captured
Timer(kind, opts, g) == [kind |-> kind, opts |-> opts, start |-> g, em |-> Main]

\* setTimeout
setTimeout(q, t) == Append(q, t)

Pending(kind) == Len(SelectSeq(timers, LAMBDA t : t.kind = kind))

\* the module-level handles: a timer of that kind is pending
timedInterval == Pending("inc") > 0
updateItr == Pending("upd") > 0

\* --------------------------------------------------------- module registry
\* loadModule that always uses push for a storable module
loadModulePush(reg, name) ==
  LET Mod == name
      caps == ModuleCaps[name]
  IN [storables |-> IF caps.storageKey /\ caps.store /\ caps.load
                    THEN Append(reg.storables, Mod)
                    ELSE reg.storables,
      toLoad    |-> IF caps.onLoad THEN Append(reg.toLoad, Mod) ELSE reg.toLoad,
      modules   |-> Append(reg.modules, Mod)]

loadModule(reg, name) ==
  LET Mod == name
      caps == ModuleCaps[name]
  IN [storables |-> IF caps.storageKey /\ caps.store /\ caps.load
                    THEN IF LowerFirst(name) = "domComponents"
                         THEN <<Mod>> \o reg.storables
                         ELSE Append(reg.storables, Mod)
                    ELSE reg.storables,
      toLoad    |-> IF caps.onLoad THEN Append(reg.toLoad, Mod) ELSE reg.toLoad,
      modules   |-> Append(reg.modules, Mod)]

\* deps.forEach(name => this.loadModule(name)), on the empty lists
RECURSIVE loadModules(_, _)
loadModules(d, i) ==
  IF i = 0
  THEN [storables |-> <<>>, toLoad |-> <<>>, modules |-> <<>>]
  ELSE loadModule(loadModules(d, i - 1), d[i])

\* the attributes initialize() sets
InitAttributes == {"Config", "modules", "toLoad", "storables", "selected",
                   "dmode", "StorageManager"}

\* the attributes defaults() sets at construction
DefaultAttributes == {"changesCount", "storables", "modules", "toLoad",
                      "selected", "editing"}

\* -------------------------------------------------------------- storeData
EmptyObject == [k \in {} |-> "undefined"]

\* { ...a, ...b }
Spread(a, b) ==
  [k \in DOMAIN a \cup DOMAIN b |-> IF k \in DOMAIN b THEN b[k] ELSE a[k]]

\* JSON.parse(JSON.stringify(o)): keys whose value is undefined are dropped
JsonCopy(o) == [k \in {x \in DOMAIN o : o[x] # "undefined"} |-> o[k]]

\* storables.forEach(m => { result = { ...result, ...m.store(1) } })
RECURSIVE storeResult(_, _)
storeResult(st, i) ==
  IF i = 0 THEN EmptyObject
  ELSE Spread(storeResult(st, i - 1), ModuleStore[st[i]])

storeData(st) == JsonCopy(storeResult(st, Len(st)))

\* ------------------------------------------------- the state of a handler
\* A handler run is computed on a record of the fields it may write; `ok`
\* turns false when the run would exceed a bound of the model.
Cur ==
  [count |-> changesCount, attrs |-> attributes, timers |-> timers,
   inflight |-> inflight, unload |-> onbeforeunload, calls |-> <<>>,
   updates |-> updates, thrown |-> FALSE, readyLoad |-> readyLoad,
   readyCanvas |-> readyCanvas, ready |-> ready, startLog |-> startLog,
   ok |-> TRUE]

Commit(r) ==
  /\ r.ok
  /\ changesCount' = r.count
  /\ attributes' = r.attrs
  /\ timers' = r.timers
  /\ inflight' = r.inflight
  /\ onbeforeunload' = r.unload
  /\ calls' = r.calls
  /\ updates' = r.updates
  /\ thrown' = r.thrown
  /\ readyLoad' = r.readyLoad
  /\ readyCanvas' = r.readyCanvas
  /\ ready' = r.ready
  /\ startLog' = r.startLog
  /\ UNCHANGED selVars
  /\ UNCHANGED peer

\* a backend request: the operation, the resolve callback handed to it, the
\* data handed to the backend and, like Timer, the start-up it belongs to
Request(op, resolve, data, g) ==
  [op |-> op, resolve |-> resolve, data |-> data, start |-> g]

\* the requests in flight are kept in a fixed order: the backend may
\* complete them in any order
Rank(req) ==
  (IF req.op = "store" THEN 0 ELSE 4)
    + (IF req.resolve = "none" THEN 0 ELSE 2)
    + (IF req.start = "old" THEN 1 ELSE 0)

Insert(infl, req) ==
  LET lower == SelectSeq(infl, LAMBDA x : Rank(x) <= Rank(req))
      upper == SelectSeq(infl, LAMBDA x : Rank(x) > Rank(req))
  IN lower \o <<req>> \o upper

NoModule == ""

Event(ev, m, g) == [ev |-> ev, mod |-> m, start |-> g]

Events(ev, s, g) == [i \in 1..Len(s) |-> Event(ev, s[i], g)]

\* ------------------------------------------------------------ persistence
\* store(): sm.store(this.storeData(), res => {...}, reject, options)
store(r) ==
  IF ~("StorageManager" \in r.attrs) THEN r
  ELSE IF Len(r.inflight) >= MaxInflight THEN [r EXCEPT !.ok = FALSE]
  ELSE [r EXCEPT !.inflight = Insert(@, Request("store", "none",
                                               storeData(storables), "none")),
                 !.calls = @ \o Call("store", storables)]

\* load(resolve, reject): sm.load(res => {...}, reject, options)
load(r, resolve, g) ==
  IF ~("StorageManager" \in r.attrs) THEN r
  ELSE IF Len(r.inflight) >= MaxInflight THEN [r EXCEPT !.ok = FALSE]
  ELSE [r EXCEPT !.inflight = Insert(@, Request("load", resolve,
                                               EmptyObject, g))]

\* --------------------------------------------------------- change tracker
\* updateChanges with the threshold test `changes > steps`
updateChangesStrict(r) ==
  LET q == setTimeout(clearTimeout(r.timers, "upd"), Timer("upd", {}, "none"))
      r1 == [r EXCEPT !.timers = q,
                      !.updates = 0,
                      !.unload = IF config.noticeOnUnload
                                 THEN r.count # 0 ELSE @]
  IN IF config.autosave /\ r.count > config.stepsBeforeSave
     THEN store(r1)
     ELSE r1

\* updateChanges(): the listener of change:changesCount
updateChanges(r) ==
  LET q == setTimeout(clearTimeout(r.timers, "upd"), Timer("upd", {}, "none"))
      r1 == [r EXCEPT !.timers = q,
                      !.updates = 0,
                      !.unload = IF config.noticeOnUnload
                                 THEN r.count # 0 ELSE @]
  IN IF config.autosave /\ r.count >= config.stepsBeforeSave
     THEN store(r1)
     ELSE r1

\* this.set('changesCount', val, opts), with the listeners it triggers
setChangesCount(r, val, opts) ==
  LET had == "changesCount" \in r.attrs
      unset == "unset" \in opts
      changed == IF unset THEN had ELSE ~had \/ r.count # val
      r1 == [r EXCEPT !.count = IF unset THEN 0 ELSE val,
                      !.attrs = IF unset THEN @ \ {"changesCount"}
                                ELSE @ \cup {"changesCount"}]
  IN IF changed /\ ~destroyed THEN updateChanges(r1) ELSE r1

\* handleUpdates without the clearTimeout of the pending timer
debounceNoClear(q, opt) == setTimeout(q, Timer("inc", opt, "none"))

\* timedInterval && clearTimeout(timedInterval);
\* timedInterval = setTimeout(() => {...}, 0)
debounce(q, opt) == setTimeout(clearTimeout(q, "inc"), Timer("inc", opt, "none"))

\* the condition of the early return of handleUpdates
Skipped(flag, opt) ==
  \/ flag
  \/ "temporary" \in opt
  \/ "noCount" \in opt
  \/ "avoidStore" \in opt
  \/ ~ready

\* -------------------------------------------------------------- readiness
\* _checkReady with `||` between the two flags
checkReadyEither(r) ==
  IF (r.readyLoad \/ r.readyCanvas) /\ ~r.ready
  THEN [r EXCEPT !.ready = TRUE, !.attrs = @ \cup {"ready"}]
  ELSE r

\* _checkReady(): the listener of change:readyLoad and change:readyCanvas
checkReady(r) ==
  IF r.readyLoad /\ r.readyCanvas /\ ~r.ready
  THEN [r EXCEPT !.ready = TRUE, !.attrs = @ \cup {"ready"}]
  ELSE r

\* this.set('readyLoad', 1), with the listeners it triggers
setReadyLoad(r) ==
  LET r1 == [r EXCEPT !.readyLoad = TRUE, !.attrs = @ \cup {"readyLoad"}]
  IN IF ~r.readyLoad /\ ~destroyed THEN checkReady(r1) ELSE r1

\* the postLoad closure of loadOnStart(); g tells whether the start-up that
\* created it is the one of the current run
postLoad(r, g) ==
  IF ~("modules" \in r.attrs) THEN [r EXCEPT !.thrown = TRUE]
  ELSE LET ms == Having("postLoad", modules)
           r1 == [r EXCEPT !.calls = @ \o Call("postLoad", ms),
                           !.startLog = IF g = "cur"
                                        THEN @ \o Events("postLoad", ms, g)
                                               \o <<Event("readyLoad",
                                                          NoModule, g)>>
                                        ELSE @]
       IN setReadyLoad(r1)

\* loadData(res): storables.forEach(module => module.load(data))
loadData(r, g, logged) ==
  IF ~("storables" \in r.attrs) THEN [r EXCEPT !.thrown = TRUE]
  ELSE [r EXCEPT !.calls = @ \o Call("load", storables),
                 !.startLog = IF logged /\ g = "cur"
                              THEN @ \o Events("load", storables, g) ELSE @]

\* const { unset, ...opts } = opt
withoutUnset(opt) == opt \ {"unset"}

\* lastOp: a timer or backend callback by name, with the number of
\* notifications it stood for; any other handler is NoOp
Op(name, n) == [name |-> name, n |-> n]
NoOp == Op("none", 0)

RemoveAt(s, i) == [j \in 1..(Len(s) - 1) |-> IF j < i THEN s[j] ELSE s[j + 1]]

\* ------------------------------------------------------- entities
\* The document the Selection Manager works on: G holds the collection
\* <<P, Z>> and P holds the collection <<A, B, C, D, E>>.
Entities == {"G", "P", "Z", "A", "B", "C", "D", "E"}

\* no entity: null, undefined and '' alike
Nothing == "nothing"

\* model.parent()
parent(m) ==
  CASE m = "G" -> Nothing
    [] m \in {"P", "Z"} -> "G"
    [] OTHER -> "P"

\* model.collection, named after the entity that holds it
collection(m) == IF m = "G" THEN "root" ELSE parent(m)

Children(c) ==
  CASE c = "root" -> <<"G">>
    [] c = "G" -> <<"P", "Z">>
    [] c = "P" -> <<"A", "B", "C", "D", "E">>

\* coll.at(i), from 0
at(c, i) == Children(c)[i + 1]

\* model.index()
index(m) == CHOOSE i \in 0..(Len(Children(collection(m))) - 1) :
              at(collection(m), i) = m

\* model.get('selectable'), model.get('hoverable')
selectable(m) == m \in doc.selectable
hoverable(m) == m \in doc.hoverable

\* The documents explored: which entities are selectable and hoverable.
Docs ==
  {[selectable |-> {"A", "B", "C", "D"}, hoverable |-> {"A", "B", "P"}],
   [selectable |-> {"G", "P", "A", "E"}, hoverable |-> {"G", "P", "A"}],
   [selectable |-> {"B", "D", "G"}, hoverable |-> {"G", "E"}]}

\* What a caller passes as el: an entity, nothing (null or undefined), or a
\* DOM element that carries no model ("stray").
Stray == "stray"
Targets == Entities \cup {Nothing, Stray}

\* getModel(el, $)
getModel(el) == IF el \in Entities THEN el ELSE Nothing

\* ------------------------------------------------- the Selected collection
\* selected.hasComponent(component)
hasComponent(sel, c) == \E i \in 1..Len(sel) : sel[i] = c

\* selected.addComponent(component, opts): inserted if absent
addComponent(sel, c) ==
  IF c = Nothing \/ hasComponent(sel, c) THEN sel ELSE Append(sel, c)

\* selected.removeComponent(components, opts): removed if present
removeComponent(sel, cs) == SelectSeq(sel, LAMBDA x : x \notin cs)

\* selected.lastComponent()
lastComponent(sel) == IF sel = <<>> THEN Nothing ELSE sel[Len(sel)]

\* selected.allComponents()
allComponents(sel) == sel

\* getSelected(), getSelectedAll()
getSelected(sel) == lastComponent(sel)
getSelectedAll(sel) == allComponents(sel)

\* ------------------------------------------------------ Selection Manager
\* The options of a selection or hover call that Editor.js reads.
SelOpts == [ctrlKey : BOOLEAN, shiftKey : BOOLEAN, useValid : BOOLEAN,
            abort : BOOLEAN, forceChange : BOOLEAN]

\* opts = {}
NoOpts == [ctrlKey |-> FALSE, shiftKey |-> FALSE, useValid |-> FALSE,
           abort |-> FALSE, forceChange |-> FALSE]

\* this.trigger(ev, model, opts)
Notify(ev, m) == [ev |-> ev, entity |-> m]

\* A selection or hover call is computed on a record of the fields it may
\* write; abort is opts.abort, which a listener of a before-notification
\* may set; once thrown is set the rest of the call does not run.
SelCur(opts) ==
  [selected |-> selected, hovered |-> componentHovered, events |-> <<>>,
   thrown |-> FALSE, abort |-> opts.abort]

Range(q) == {q[i] : i \in 1..Len(q)}

\* removeSelected(el, opts), el a model or an array of models
removeSelected(s, cs) ==
  IF s.thrown THEN s
  ELSE IF destroyed THEN [s EXCEPT !.thrown = TRUE]
  ELSE [s EXCEPT !.selected = removeComponent(@, cs)]

\* addSelected with the forced removal after the insertion
addOneRemoveLast(s, model, opts) ==
  IF s.thrown THEN s
  ELSE IF model # Nothing /\ ~selectable(model) THEN s
  ELSE IF destroyed THEN [s EXCEPT !.thrown = TRUE]
  ELSE LET s1 == [s EXCEPT !.selected = addComponent(@, model),
                           !.events = IF model # Nothing
                                      THEN Append(@, Notify("component:select",
                                                            model))
                                      ELSE @]
       IN IF opts.forceChange THEN removeSelected(s1, {model}) ELSE s1

\* addSelected without the test of the selectable flag
addOneAny(s, model, opts) ==
  IF s.thrown THEN s
  ELSE IF destroyed THEN [s EXCEPT !.thrown = TRUE]
  ELSE LET s1 == IF opts.forceChange THEN removeSelected(s, {model}) ELSE s
       IN [s1 EXCEPT !.selected = addComponent(@, model),
                     !.events = IF model # Nothing
                                THEN Append(@, Notify("component:select", model))
                                ELSE @]

\* the body of models.forEach in addSelected
addOne(s, model, opts) ==
  IF s.thrown THEN s
  ELSE IF model # Nothing /\ ~selectable(model) THEN s
  ELSE IF destroyed THEN [s EXCEPT !.thrown = TRUE]
  ELSE LET s1 == IF opts.forceChange THEN removeSelected(s, {model}) ELSE s
       IN [s1 EXCEPT !.selected = addComponent(@, model),
                     !.events = IF model # Nothing
                                THEN Append(@, Notify("component:select", model))
                                ELSE @]

\* addSelected(el, opts), el a model or an array of models
RECURSIVE addSelected(_, _, _)
addSelected(s, models, opts) ==
  IF models = <<>> THEN s
  ELSE addSelected(addOne(s, Head(models), opts), Tail(models), opts)

\* toggleSelected that adds whether or not the entity is selected
toggleOneAdd(s, model, opts) == addOne(s, model, opts)

\* the body of models.forEach in toggleSelected
toggleOne(s, model, opts) ==
  IF s.thrown THEN s
  ELSE IF destroyed THEN [s EXCEPT !.thrown = TRUE]
  ELSE IF hasComponent(s.selected, model)
  THEN removeSelected(s, {model})
  ELSE addOne(s, model, opts)

\* toggleSelected(el, opts), el a model or an array of models
RECURSIVE toggleSelected(_, _, _)
toggleSelected(s, models, opts) ==
  IF models = <<>> THEN s
  ELSE toggleSelected(toggleOne(s, Head(models), opts), Tail(models), opts)

\* let parent = model.parent(); while (parent && !parent.get(flag)) parent = parent.parent()
RECURSIVE validAncestor(_, _)
validAncestor(p, valid) ==
  IF p = Nothing \/ p \in valid THEN p ELSE validAncestor(parent(p), valid)

\* the fallback that takes the parent, whatever its flag
nearestValidParent(model, valid) == parent(model)

\* the fallback of a candidate that is not valid: its nearest valid ancestor
nearestValid(model, valid) == validAncestor(parent(model), valid)

SetMax(S) == CHOOSE x \in S : \A y \in S : y <= x
SetMin(S) == CHOOSE x \in S : \A y \in S : x <= y

\* the indexes of the selected entities of collection coll
SelectedIndexes(sel, coll) ==
  {index(sel[i]) : i \in {j \in 1..Len(sel) : collection(sel[j]) = coll}}

\* the range branch that takes the farthest selected sibling on each side
rangeSelectFarthest(s, model) ==
  LET coll == collection(model)
      idx == index(model)
      sib == SelectedIndexes(getSelectedAll(s.selected), coll)
      below == {i \in sib : i < idx}
      above == {i \in sib : i > idx}
      lo == IF below = {} THEN <<>>
            ELSE [k \in 1..(idx - SetMin(below)) |->
                    at(coll, SetMin(below) + k - 1)]
      hi == IF above = {} THEN <<>>
            ELSE [k \in 1..(SetMax(above) - idx) |->
                    at(coll, SetMax(above) - k + 1)]
  IN addSelected(addSelected(addSelected(s, lo, NoOpts), hi, NoOpts),
                 <<model>>, NoOpts)

\* the range branch of setSelected: min, max, the two while loops and the
\* final addSelected(model)
rangeSelect(s, model) ==
  LET coll == collection(model)
      idx == index(model)
      sib == SelectedIndexes(getSelectedAll(s.selected), coll)
      below == {i \in sib : i < idx}
      above == {i \in sib : i > idx}
      lo == IF below = {} THEN <<>>
            ELSE [k \in 1..(idx - SetMax(below)) |->
                    at(coll, SetMax(below) + k - 1)]
      hi == IF above = {} THEN <<>>
            ELSE [k \in 1..(SetMin(above) - idx) |->
                    at(coll, SetMin(above) - k + 1)]
  IN addSelected(addSelected(addSelected(s, lo, NoOpts), hi, NoOpts),
                 <<model>>, NoOpts)

\* the plain branch of setSelected without the removal of the others
plainSelectKeep(s, model, opts, multiple, selected0) ==
  addSelected(s, <<model>>, opts)

\* the plain branch of setSelected:
\* !multiple && this.removeSelected(selected.filter(s => s !== model));
\* this.addSelected(model, opts)
plainSelect(s, model, opts, multiple, selected0) ==
  addSelected(IF multiple THEN s
              ELSE removeSelected(s, Range(selected0) \ {model}),
              <<model>>, opts)

\* the body of els.forEach in setSelected, for the candidate el; veto is
\* the entity at whose before-notification a listener sets opts.abort
selectOne(s, el, opts, veto, multiple, selected0) ==
  IF s.thrown THEN s
  ELSE LET model0 == getModel(el)
           s1 == IF model0 # Nothing
                 THEN [s EXCEPT !.events = Append(@, Notify("component:select:before",
                                                            model0)),
                                !.abort = @ \/ veto = model0]
                 ELSE s
           invalid == model0 # Nothing /\ (~selectable(model0) \/ s1.abort)
           model == IF invalid
                    THEN nearestValid(model0, doc.selectable)
                    ELSE model0
       IN IF invalid /\ ~opts.useValid THEN s1
          ELSE IF opts.ctrlKey /\ multipleSelection
          THEN toggleSelected(s1, <<model>>, NoOpts)
          ELSE IF opts.shiftKey /\ multipleSelection
          THEN IF model = Nothing THEN [s1 EXCEPT !.thrown = TRUE]
               ELSE rangeSelect(s1, model)
          ELSE plainSelect(s1, model, opts, multiple, selected0)

RECURSIVE selectAll(_, _, _, _, _, _)
selectAll(s, els, opts, veto, multiple, selected0) ==
  IF els = <<>> THEN s
  ELSE selectAll(selectOne(s, Head(els), opts, veto, multiple, selected0),
                 Tail(els), opts, veto, multiple, selected0)

\* setSelected(el, opts): el is one target (multiple false) or an array
setSelected(s, el, opts, veto) ==
  IF destroyed THEN [s EXCEPT !.thrown = TRUE]
  ELSE LET els == [i \in 1..Len(el.els) |-> getModel(el.els[i])]
           selected0 == getSelectedAll(s.selected)
           s1 == IF el.multiple
                 THEN removeSelected(s, Range(selected0) \ Range(els))
                 ELSE s
       IN selectAll(s1, els, opts, veto, el.multiple, selected0)

\* componentHovered with the two notifications in the other order
componentHoveredSwapped(s, prev, component) ==
  [s EXCEPT !.events =
     @ \o (IF component # Nothing
           THEN <<Notify("component:hovered", component)>> ELSE <<>>)
       \o (IF prev # Nothing
           THEN <<Notify("component:unhovered", prev)>> ELSE <<>>)]

\* componentHovered(editor, component, options): the listener of
\* change:componentHovered
componentHoveredListener(s, prev, component) ==
  [s EXCEPT !.events =
     @ \o (IF prev # Nothing
           THEN <<Notify("component:unhovered", prev)>> ELSE <<>>)
       \o (IF component # Nothing
           THEN <<Notify("component:hovered", component)>> ELSE <<>>)]

\* this.set('componentHovered', val, opts), with the listener it triggers
setComponentHovered(s, val) ==
  IF s.hovered = val THEN s
  ELSE LET s1 == [s EXCEPT !.hovered = val]
       IN IF destroyed THEN s1 ELSE componentHoveredListener(s1, s.hovered, val)

\* setHovered(el, opts)
setHovered(s, el, opts, veto) ==
  IF el = Nothing THEN setComponentHovered(s, Nothing)
  ELSE IF getModel(el) = Nothing THEN s
  ELSE LET model0 == getModel(el)
           s1 == IF opts.forceChange THEN setComponentHovered(s, Nothing) ELSE s
           s2 == [s1 EXCEPT !.events = Append(@, Notify("component:hover:before",
                                                        model0)),
                            !.abort = @ \/ veto = model0]
           invalid == ~hoverable(model0)
           model == IF invalid
                    THEN nearestValid(model0, doc.hoverable)
                    ELSE model0
       IN IF invalid /\ ~(opts.useValid /\ ~s2.abort) THEN s2
          ELSE IF s2.abort THEN s2
          ELSE [setComponentHovered(s2, model) EXCEPT
                  !.events = Append(@, Notify("component:hover", model))]

\* -------------------------------------------------- a second instance
\* The change tracker of another EditorModel of the same page: its own
\* attributes 'ready' and 'changesCount', with the notifications folded
\* into its pending increment and its 'update' emissions since its counter
\* last changed. Its configuration has noticeOnUnload false and no autosave.
PeerEditor(rdy) == [ready |-> rdy, changesCount |-> 0, burst |-> 0, updates |-> 0]

\* a callback whose closure captured the second instance
Owned(q) == [q EXCEPT ![Len(q)].em = Peer]

\* ---------------------------------------------------------- initial state
\* the configurations of the change tracker, with autoload off
Configs ==
  {c \in [autosave : BOOLEAN, stepsBeforeSave : 1..MaxSteps,
          autoload : {FALSE}, noticeOnUnload : {TRUE}] :
     ~c.autosave => c.stepsBeforeSave = 1}

\* the instance after `new EditorModel(conf)` and init(editor), on the
\* document dc
InitPeer(d, c, dc, mlt, p) ==
  LET reg == loadModules(d, Len(d))
  IN /\ deps = d
     /\ config = c
     /\ attributes = DefaultAttributes \cup InitAttributes \cup {"Editor"}
     /\ modules = reg.modules
     /\ toLoad = reg.toLoad
     /\ storables = reg.storables
     /\ changesCount = 0
     /\ readyLoad = FALSE
     /\ readyCanvas = FALSE
     /\ ready = FALSE
     /\ shallow = FALSE
     /\ destroyed = FALSE
     /\ skipFlag = FALSE
     /\ onbeforeunload = FALSE
     /\ timers = <<>>
     /\ inflight = <<>>
     /\ started = FALSE
     /\ thrown = FALSE
     /\ calls = <<>>
     /\ startLog = <<>>
     /\ burst = 0
     /\ updates = 0
     /\ lastOp = NoOp
     /\ doc = dc
     /\ multipleSelection = mlt
     /\ selected = <<>>
     /\ componentHovered = Nothing
     /\ events = <<>>
     /\ peer = p

\* the page holds this one editor: the second instance never becomes ready
InitOn(d, c, dc, mlt) == InitPeer(d, c, dc, mlt, PeerEditor(FALSE))

InitWith(d, c) ==
  InitOn(d, c, CHOOSE dc \in Docs : dc.hoverable = {"A", "B", "P"}, TRUE)

Init == \E c \in Configs : InitWith(SourceDeps, c)

\* ---------------------------------------------------------------- actions
\* loadOnStart running the deferred part at once, without setTimeout
deferStartSync(r, g) ==
  IF config.autoload THEN load(r, "postLoad", g) ELSE postLoad(r, g)

\* setTimeout(() => {...}) of loadOnStart: the load is deferred by one turn
deferStart(r, g) == [r EXCEPT !.timers = setTimeout(@, Timer("start", {}, g))]

loadOnStart ==
  /\ ~destroyed
  /\ ~started
  /\ Pending("start") < MaxStart
  /\ LET r0 == [Cur EXCEPT !.calls = Call("onLoad", toLoad),
                           !.startLog = @ \o Events("onLoad", toLoad, "cur")]
         r == [deferStart(r0, "cur") EXCEPT !.attrs = @ \cup {"shallow"}]
     IN Commit(r)
  /\ shallow' = TRUE
  /\ started' = TRUE
  /\ lastOp' = NoOp
  /\ UNCHANGED <<deps, config, modules, toLoad, storables, destroyed,
                 skipFlag, burst>>

\* the deferred callback of loadOnStart
startTimeout ==
  /\ timers # <<>>
  /\ Head(timers).kind = "start"
  /\ LET t == Head(timers)
         r0 == [Cur EXCEPT !.timers = Tail(timers)]
         r == IF config.autoload
              THEN load(r0, "postLoad", t.start)
              ELSE postLoad(r0, t.start)
     IN Commit(r)
  /\ lastOp' = NoOp
  /\ UNCHANGED <<deps, config, modules, toLoad, storables, shallow, destroyed,
                 skipFlag, started, burst>>

\* handleUpdates that clears the pending timer before its early return
notifyClearFirst(h, opt) ==
  IF Skipped(h.flag, opt) THEN [h EXCEPT !.timers = clearTimeout(@, "inc")]
  ELSE IF h.burst >= MaxBurst \/ changesCount >= MaxCount
  THEN [h EXCEPT !.ok = FALSE]
  ELSE [h EXCEPT !.timers = debounce(@, opt), !.burst = @ + 1]

\* handleUpdates(model, val, opt), changesUp(opts), on the fields h it
\* reads and writes
notify(h, opt) ==
  IF Skipped(h.flag, opt) THEN h
  ELSE IF h.burst >= MaxBurst \/ changesCount >= MaxCount
  THEN [h EXCEPT !.ok = FALSE]
  ELSE [h EXCEPT !.timers = debounce(@, opt), !.burst = @ + 1]

Handler == [flag |-> skipFlag, timers |-> timers, burst |-> burst, ok |-> TRUE]

handleUpdates(opt) ==
  /\ LET h == notify(Handler, opt)
     IN /\ h.ok
        /\ timers' = h.timers
        /\ burst' = h.burst
  /\ lastOp' = IF Skipped(skipFlag, opt) THEN Op("ignored", burst) ELSE NoOp
  /\ calls' = <<>>
  /\ thrown' = FALSE
  /\ UNCHANGED <<deps, config, attributes, modules, toLoad, storables,
                 changesCount, readyLoad, readyCanvas, ready, shallow,
                 destroyed, skipFlag, onbeforeunload, inflight, started,
                 startLog, updates>>
  /\ UNCHANGED selVars
  /\ UNCHANGED peer

\* the debounced callback of handleUpdates
timedIntervalTimeout ==
  /\ timers # <<>>
  /\ Head(timers).kind = "inc"
  /\ Head(timers).em = Main
  /\ LET t == Head(timers)
         r0 == [Cur EXCEPT !.timers = Tail(timers)]
         curr == r0.count
     IN Commit(setChangesCount(r0, curr + 1, withoutUnset(t.opts)))
  /\ burst' = 0
  /\ lastOp' = Op("timedInterval", burst)
  /\ UNCHANGED <<deps, config, modules, toLoad, storables, shallow, destroyed,
                 skipFlag, started>>

\* the callback of updateItr: this.trigger('update')
updateItrTimeout ==
  /\ timers # <<>>
  /\ Head(timers).kind = "upd"
  /\ Head(timers).em = Main
  /\ Commit([Cur EXCEPT !.timers = Tail(timers), !.updates = @ + 1])
  /\ lastOp' = NoOp
  /\ UNCHANGED <<deps, config, modules, toLoad, storables, shallow, destroyed,
                 skipFlag, started, burst>>

\* store() called by the application
storeCall ==
  /\ Commit(store(Cur))
  /\ lastOp' = Op("storeCall", 0)
  /\ UNCHANGED <<deps, config, modules, toLoad, storables, shallow, destroyed,
                 skipFlag, started, burst>>

\* load() called by the application
loadCall ==
  /\ Commit(load(Cur, "none", "none"))
  /\ lastOp' = NoOp
  /\ UNCHANGED <<deps, config, modules, toLoad, storables, shallow, destroyed,
                 skipFlag, started, burst>>

\* a success callback of store that leaves the counter alone
storeSuccessNoReset(r) == r

\* the success callback of store: resolve?.(res); this.set('changesCount', 0)
storeSuccess(r) == setChangesCount(r, 0, {})

\* the failure callback of store: reject
storeFailure(r) == r

\* the success callback of load: this.loadData(res); resolve?.(res)
loadSuccess(r, req) ==
  IF ~("storables" \in r.attrs) THEN [r EXCEPT !.thrown = TRUE]
  ELSE LET r1 == loadData(r, req.start, req.resolve = "postLoad")
       IN IF req.resolve = "postLoad" THEN postLoad(r1, req.start) ELSE r1

\* the failure callback of load: error => this.logError(error)
loadFailure(r, req) ==
  IF req.resolve = "postLoad" /\ req.start = "cur"
  THEN [r EXCEPT !.startLog = @ \o <<Event("logError", NoModule, req.start)>>]
  ELSE r

\* the storage backend completes a request, with success or with failure
backendCompletes(i, success) ==
  /\ i \in 1..Len(inflight)
  /\ LET req == inflight[i]
         r0 == [Cur EXCEPT !.inflight = RemoveAt(inflight, i)]
     IN /\ Commit(CASE req.op = "store" /\ success  -> storeSuccess(r0)
                    [] req.op = "store" /\ ~success -> storeFailure(r0)
                    [] req.op = "load" /\ success   -> loadSuccess(r0, req)
                    [] req.op = "load" /\ ~success  -> loadFailure(r0, req))
        /\ lastOp' = Op(req.op \o (IF success THEN "Success" ELSE "Failure"), 0)
  /\ UNCHANGED <<deps, config, modules, toLoad, storables, shallow, destroyed,
                 skipFlag, started, burst>>

\* the canvas reports that its frame is rendered: this.set('readyCanvas', 1)
setReadyCanvas ==
  /\ ~destroyed
  /\ LET r1 == [Cur EXCEPT !.readyCanvas = TRUE,
                           !.attrs = @ \cup {"readyCanvas"}]
     IN Commit(IF ~readyCanvas THEN checkReady(r1) ELSE r1)
  /\ lastOp' = NoOp
  /\ UNCHANGED <<deps, config, modules, toLoad, storables, shallow, destroyed,
                 skipFlag, started, burst>>

\* destroyAll without the reverse() of the module list
destroyCallsForward(ms, sh) ==
  (IF sh THEN <<[method |-> "destroyAll", mod |-> "shallow"]>> ELSE <<>>) \o Call("destroy", ms)

\* the start-ups still pending now belong to an earlier run
Old(q) == [i \in 1..Len(q) |-> [q[i] EXCEPT !.start = IF @ = "cur" THEN "old" ELSE @]]

\* the destroy calls of destroyAll, in order
destroyCalls(ms, sh) ==
  (IF sh THEN <<[method |-> "destroyAll", mod |-> "shallow"]>> ELSE <<>>) \o Call("destroy", Reverse(ms))

destroyAll ==
  /\ ~destroyed
  /\ calls' = destroyCalls(modules, shallow)
  /\ attributes' = {}
  /\ modules' = <<>>
  /\ toLoad' = <<>>
  /\ storables' = <<>>
  /\ changesCount' = 0
  /\ readyLoad' = FALSE
  /\ readyCanvas' = FALSE
  /\ ready' = FALSE
  /\ shallow' = FALSE
  /\ destroyed' = TRUE
  /\ started' = FALSE
  /\ startLog' = <<>>
  /\ updates' = 0
  /\ timers' = Old(timers)
  /\ inflight' = Old(inflight)
  /\ lastOp' = NoOp
  /\ thrown' = FALSE
  /\ selected' = <<>>
  /\ componentHovered' = Nothing
  /\ events' = <<>>
  /\ UNCHANGED <<deps, config, skipFlag, onbeforeunload, burst, doc,
                 multipleSelection, peer>>

\* initialize(conf): the lists are reset and every module is registered
initialize == loadModules(deps, Len(deps))

init ==
  /\ IF destroyed
     THEN /\ LET reg == initialize
             IN /\ modules' = reg.modules
                /\ toLoad' = reg.toLoad
                /\ storables' = reg.storables
          /\ attributes' = attributes \cup InitAttributes \cup {"Editor"}
          /\ destroyed' = FALSE
     ELSE /\ attributes' = attributes \cup {"Editor"}
          /\ UNCHANGED <<modules, toLoad, storables, destroyed>>
  /\ calls' = <<>>
  /\ lastOp' = NoOp
  /\ UNCHANGED <<deps, config, changesCount, readyLoad, readyCanvas, ready,
                 shallow, skipFlag, onbeforeunload, timers,
                 inflight, started, startLog, burst, updates>>
  /\ thrown' = FALSE
  /\ events' = <<>>
  /\ UNCHANGED <<doc, multipleSelection, selected, componentHovered, peer>>

\* what the callback handed to skip() does: it notifies the editor of a
\* change and calls skip() itself, with a callback that changes nothing
ClbCalls == [call : {"handleUpdates"}, opt : {{}}] \cup [call : {"skip"}]

Clbs == UNION {[1..n -> ClbCalls] : n \in 0..MaxSkip}

\* clb(this): the calls of clb, in order
RECURSIVE runClb(_, _, _)
runClb(h, clb, i) ==
  IF i = 0 THEN h
  ELSE LET h1 == runClb(h, clb, i - 1)
       IN IF clb[i].call = "skip"
          THEN [h1 EXCEPT !.flag = FALSE]
          ELSE notify(h1, clb[i].opt)

\* skip(clb): this.__skip = true; clb(this); this.__skip = false, where
\* clb may end by throwing
skip(clb, throws) ==
  /\ LET h == runClb([Handler EXCEPT !.flag = TRUE], clb, Len(clb))
     IN /\ h.ok
        /\ timers' = h.timers
        /\ burst' = h.burst
        /\ skipFlag' = IF throws THEN h.flag ELSE FALSE
  /\ thrown' = throws
  /\ calls' = <<>>
  /\ lastOp' = NoOp
  /\ UNCHANGED <<deps, config, attributes, modules, toLoad, storables,
                 changesCount, readyLoad, readyCanvas, ready, shallow,
                 destroyed, onbeforeunload, inflight, started, startLog,
                 updates>>
  /\ UNCHANGED selVars
  /\ UNCHANGED peer

\* --------------------------------------------- selection and hover calls
\* the fields no selection or hover call writes
editorVars == <<deps, config, attributes, modules, toLoad, storables,
                changesCount, readyLoad, readyCanvas, ready, shallow,
                destroyed, skipFlag, onbeforeunload, timers, inflight,
                started, startLog, burst, updates>>

SelCommit(s) ==
  /\ selected' = s.selected
  /\ componentHovered' = s.hovered
  /\ events' = s.events
  /\ thrown' = s.thrown
  /\ calls' = <<>>
  /\ lastOp' = NoOp
  /\ UNCHANGED <<doc, multipleSelection, peer>>
  /\ UNCHANGED editorVars

\* one target, or an array of targets
Single(t) == [multiple |-> FALSE, els |-> <<t>>]
Array(ts) == [multiple |-> TRUE, els |-> ts]

\* the arrays of targets explored: over two siblings and their parent
ArrayEntities == {"D", "E", "P"}

Arrays == UNION {[1..n -> ArrayEntities] : n \in 2..MaxTargets}

SelectTargets ==
  {Single(t) : t \in Entities \cup {Nothing}} \cup {Array(ts) : ts \in Arrays}

\* a listener of the before-notification sets opts.abort for entity veto,
\* here the last candidate, or for none
Vetoes(el, opts) ==
  IF opts.abort THEN {Nothing} ELSE {Nothing, el.els[Len(el.els)]}

setSelectedCall(el, opts, veto) ==
  SelCommit(setSelected(SelCur(opts), el, opts, veto))

\* the models of a target
Models(el) == [i \in 1..Len(el.els) |-> getModel(el.els[i])]

addSelectedCall(el, opts) ==
  SelCommit(addSelected(SelCur(opts), Models(el), opts))

removeSelectedCall(el) ==
  SelCommit(removeSelected(SelCur(NoOpts), Range(Models(el))))

toggleSelectedCall(el, opts) ==
  SelCommit(toggleSelected(SelCur(opts), Models(el), opts))

setHoveredCall(el, opts, veto) ==
  SelCommit(setHovered(SelCur(opts), el, opts, veto))

\* handleUpdates(model, val, opt) on the second instance
peerHandleUpdates(opt) ==
  /\ ~("temporary" \in opt \/ "noCount" \in opt \/ "avoidStore" \in opt
        \/ ~peer.ready)
  /\ peer.burst < MaxBurst
  /\ peer.changesCount < MaxCount
  /\ timers' = Owned(debounce(timers, opt))
  /\ peer' = [peer EXCEPT !.burst = @ + 1]
  /\ calls' = <<>>
  /\ thrown' = FALSE
  /\ lastOp' = NoOp
  /\ UNCHANGED <<deps, config, attributes, modules, toLoad, storables,
                 changesCount, readyLoad, readyCanvas, ready, shallow,
                 destroyed, skipFlag, onbeforeunload, inflight, started,
                 startLog, burst, updates>>
  /\ UNCHANGED selVars

\* the debounced callback of handleUpdates on the second instance, with its
\* listener updateChanges
peerTimedIntervalTimeout ==
  /\ timers # <<>>
  /\ Head(timers).kind = "inc"
  /\ Head(timers).em = Peer
  /\ timers' = Owned(setTimeout(clearTimeout(Tail(timers), "upd"),
                                Timer("upd", {}, "none")))
  /\ peer' = [peer EXCEPT !.changesCount = @ + 1, !.burst = 0, !.updates = 0]
  /\ calls' = <<>>
  /\ thrown' = FALSE
  /\ lastOp' = NoOp
  /\ UNCHANGED <<deps, config, attributes, modules, toLoad, storables,
                 changesCount, readyLoad, readyCanvas, ready, shallow,
                 destroyed, skipFlag, onbeforeunload, inflight, started,
                 startLog, burst, updates>>
  /\ UNCHANGED selVars

\* the callback of updateItr on the second instance
peerUpdateItrTimeout ==
  /\ timers # <<>>
  /\ Head(timers).kind = "upd"
  /\ Head(timers).em = Peer
  /\ timers' = Tail(timers)
  /\ peer' = [peer EXCEPT !.updates = @ + 1]
  /\ calls' = <<>>
  /\ thrown' = FALSE
  /\ lastOp' = NoOp
  /\ UNCHANGED <<deps, config, attributes, modules, toLoad, storables,
                 changesCount, readyLoad, readyCanvas, ready, shallow,
                 destroyed, skipFlag, onbeforeunload, inflight, started,
                 startLog, burst, updates>>
  /\ UNCHANGED selVars

\* The change tracker through start-up, store requests, skip() and
\* destroyAll/init cycles; load requests are left to SpecOrders.
Next ==
  \/ loadOnStart
  \/ startTimeout
  \/ \E opt \in Opts : handleUpdates(opt)
  \/ timedIntervalTimeout
  \/ updateItrTimeout
  \/ storeCall
  \/ \E i \in 1..MaxInflight, success \in BOOLEAN : backendCompletes(i, success)
  \/ setReadyCanvas
  \/ destroyAll
  \/ init
  \/ \E clb \in Clbs, throws \in BOOLEAN : skip(clb, throws)

Spec == Init /\ [][Next]_vars

\* Start-up with and without autoload, readiness, persistence and tear-down
\* for every registration order; no change is notified.
InitOrders ==
  \E d \in Orders, a \in BOOLEAN :
    InitWith(d, [autosave |-> FALSE, stepsBeforeSave |-> 1, autoload |-> a,
                 noticeOnUnload |-> TRUE])

NextOrders ==
  \/ loadOnStart
  \/ startTimeout
  \/ storeCall
  \/ loadCall
  \/ \E i \in 1..MaxInflight, success \in BOOLEAN : backendCompletes(i, success)
  \/ setReadyCanvas
  \/ destroyAll
  \/ init

SpecOrders == InitOrders /\ [][NextOrders]_vars

\* Two editor instances of one page, the second one ready: the change
\* tracker of each, without store requests and tear-down.
InitTwo ==
  InitPeer(SourceDeps, [autosave |-> FALSE, stepsBeforeSave |-> 1,
                        autoload |-> FALSE, noticeOnUnload |-> TRUE],
           CHOOSE dc \in Docs : dc.hoverable = {"A", "B", "P"}, TRUE,
           PeerEditor(TRUE))

NextTwo ==
  \/ loadOnStart
  \/ startTimeout
  \/ setReadyCanvas
  \/ \E opt \in Opts : handleUpdates(opt)
  \/ timedIntervalTimeout
  \/ updateItrTimeout
  \/ \E opt \in Opts : peerHandleUpdates(opt)
  \/ peerTimedIntervalTimeout
  \/ peerUpdateItrTimeout

SpecTwo == InitTwo /\ [][NextTwo]_vars

\* The Selection Manager on every document, through destroyAll/init cycles.
InitSelect ==
  \E dc \in Docs, mlt \in BOOLEAN :
    InitOn(SourceDeps, [autosave |-> FALSE, stepsBeforeSave |-> 1,
                        autoload |-> FALSE, noticeOnUnload |-> TRUE], dc, mlt)

\* the options addSelected and toggleSelected read
AddOpts == {o \in SelOpts : ~o.ctrlKey /\ ~o.shiftKey /\ ~o.useValid /\ ~o.abort}

\* the options handed to setSelected: every key combination with a single
\* target, no key with an array of targets
SetOpts(el) ==
  {o \in SelOpts : ~o.forceChange /\ (el.multiple => ~o.ctrlKey /\ ~o.shiftKey)}

NextSelect ==
  \/ \E el \in SelectTargets : \E opts \in SetOpts(el) :
       \E veto \in Vetoes(el, opts) : setSelectedCall(el, opts, veto)
  \/ \E el \in SelectTargets, opts \in AddOpts : addSelectedCall(el, opts)
  \/ \E el \in SelectTargets : removeSelectedCall(el)
  \/ \E el \in SelectTargets, opts \in AddOpts : toggleSelectedCall(el, opts)
  \/ destroyAll
  \/ init

SpecSelect == InitSelect /\ [][NextSelect]_vars

\* the options setHovered reads
HoverOpts == {o \in SelOpts : ~o.ctrlKey /\ ~o.shiftKey}

\* The Hovered Entity on every document, through destroyAll/init cycles.
NextHover ==
  \/ \E el \in Targets, opts \in HoverOpts :
       \E veto \in {Nothing, el} : setHoveredCall(el, opts, veto)
  \/ destroyAll
  \/ init

SpecHover == InitSelect /\ [][NextHover]_vars

\* ================================================================= claims
PendingIn(q, kind) == Len(SelectSeq(q, LAMBDA t : t.kind = kind))

\* C1: when the debounce timer fires it stands for a burst of N >= 1
\* qualifying notifications, and whatever N is it raises changesCount by
\* exactly one and leaves no further increment pending; on a live editor the
\* counter change leaves exactly one 'update' emission pending, and between
\* two counter changes at most one 'update' is emitted in all.
C1_BurstOneIncrement ==
  /\ [][lastOp'.name = "timedInterval" =>
          /\ burst >= 1
          /\ lastOp'.n = burst
          /\ changesCount' = changesCount + 1
          /\ PendingIn(timers', "inc") = 0
          /\ ~destroyed => (PendingIn(timers', "upd") = 1 /\ updates' = 0)]_vars
  /\ [](~destroyed => Pending("upd") + updates <= 1)

\* a burst of two notifications was folded into one increment, whose single
\* 'update' is pending
C1_Witness ==
  /\ lastOp.name = "timedInterval"
  /\ lastOp.n >= 2
  /\ ready
  /\ changesCount = 1
  /\ Pending("upd") = 1
  /\ Pending("inc") = 0

\* C2: on a live editor changesCount changes only by +1 (the debounce timer)
\* or by a reset to zero (the success callback of store); the success
\* callback always leaves it at zero and the failure callback leaves it as
\* it was.
C2_CounterSteps ==
  [][(~destroyed /\ ~destroyed') =>
       /\ changesCount' # changesCount =>
            \/ changesCount' = changesCount + 1 /\ lastOp'.name = "timedInterval"
            \/ changesCount' = 0 /\ lastOp'.name = "storeSuccess"
       /\ lastOp'.name = "storeSuccess" => changesCount' = 0
       /\ lastOp'.name = "storeFailure" => changesCount' = changesCount]_vars

\* a store failed on a live editor and the unsaved changes are still counted
C2_Witness ==
  /\ ~destroyed
  /\ lastOp.name = "storeFailure"
  /\ changesCount > 0

\* the request that store() hands to the backend
StoreRequest == Request("store", "none", storeData(storables), "none")

\* this step issues one store request and completes none
StoreIssued == inflight' = Insert(inflight, StoreRequest)

\* C4: on a live editor a step that changes changesCount issues a store
\* request exactly when autosave is on and the new value is at or above
\* stepsBeforeSave; any other store request comes from a store() call of the
\* application.
C4_AutosaveThreshold ==
  [][(~destroyed /\ ~destroyed') =>
       /\ changesCount' # changesCount =>
            (StoreIssued <=>
               (config.autosave /\ changesCount' >= config.stepsBeforeSave))
       /\ (StoreIssued /\ lastOp'.name # "storeCall")
            => /\ config.autosave
               /\ changesCount' # changesCount
               /\ changesCount' >= config.stepsBeforeSave]_vars

\* the counter has just reached a threshold of two and the store is in flight
C4_Witness ==
  /\ ~destroyed
  /\ lastOp.name = "timedInterval"
  /\ config.autosave
  /\ config.stepsBeforeSave = 2
  /\ changesCount = 2
  /\ \E i \in 1..Len(inflight) : inflight[i].op = "store"

\* C5: ready holds only if readyLoad and readyCanvas both hold; on a live
\* editor it holds as soon as both hold; it turns true in the step in which
\* the second of the two flags turns true; and it stays true until the
\* editor is destroyed.
C5_Ready ==
  /\ [](ready => (readyLoad /\ readyCanvas))
  /\ []((~destroyed /\ readyLoad /\ readyCanvas) => ready)
  /\ [][(~ready /\ ready') =>
          (readyLoad' /\ readyCanvas' /\ (~readyLoad \/ ~readyCanvas))]_vars
  /\ [][(ready /\ ~destroyed') => ready']_vars

\* the editor is ready again after it was destroyed and initialized anew: the
\* start-up of the earlier run has completed in this one
C5_Witness ==
  /\ ready
  /\ ~destroyed
  /\ ~started

\* C3: no pending increment stems from a notification carrying temporary,
\* noCount or avoidStore, an increment is pending exactly while notifications
\* wait for it (an ignored notification schedules and cancels nothing), and
\* on a live editor changesCount is zero for as long as ready is false.
C3_IgnoredNotification ==
  /\ \A i \in 1..Len(timers) :
       timers[i].kind = "inc" =>
         timers[i].opts \cap {"temporary", "noCount", "avoidStore"} = {}
  /\ (burst > 0) <=> timedInterval
  /\ (~destroyed /\ ~ready) => changesCount = 0

\* the first two parts of C3 alone
C3_IgnoredIsNoOp ==
  /\ \A i \in 1..Len(timers) :
       timers[i].kind = "inc" =>
         timers[i].opts \cap {"temporary", "noCount", "avoidStore"} = {}
  /\ (burst > 0) <=> timedInterval

\* C6: once the load issued by the start-up of the current run has failed
\* and no callback is pending any more, readyLoad is set.
C6_LoadFailureReachesReady ==
  \A i \in 1..Len(startLog) :
    (/\ startLog[i].ev = "logError"
     /\ startLog[i].start = "cur"
     /\ ~destroyed
     /\ timers = <<>>
     /\ inflight = <<>>) => readyLoad

\* the places of the start-up events of kind ev caused by a start-up of run s
Idx(ev, s) ==
  {i \in 1..Len(startLog) : startLog[i].ev = ev /\ startLog[i].start = s}

Sub(ev, s) == SelectSeq(startLog, LAMBDA e : e.ev = ev /\ e.start = s)

Before(A, B) == \A i \in A, j \in B : i < j

PostLoadCalls == Call("postLoad", Having("postLoad", modules))

\* C7: of the events the start-up of the current run causes, the onLoad
\* calls are those of the modules defining onLoad in registration order;
\* they precede the load calls, which cover all storables and precede the
\* postLoad calls, which cover every module defining postLoad and precede
\* the setting of readyLoad.  Whatever start-up it completes, a handler that
\* calls postLoad calls it on every module defining it, after the load
\* calls if it makes any, and leaves readyLoad set.  readyLoad is set by
\* such a handler only, and never within the call of loadOnStart itself.
C7_StartupOrder ==
  /\ [](LET s == "cur"
        IN /\ Sub("onLoad", s) \in
                {<<>>, Events("onLoad", Having("onLoad", modules), s)}
           /\ started => Sub("onLoad", s) # <<>>
           /\ Before(Idx("onLoad", s), Idx("load", s) \cup Idx("postLoad", s))
           /\ Before(Idx("load", s), Idx("postLoad", s))
           /\ Before(Idx("postLoad", s), Idx("readyLoad", s))
           /\ Sub("load", s) \in {<<>>, Events("load", storables, s)}
           /\ Idx("readyLoad", s) # {} =>
                Sub("postLoad", s)
                  = Events("postLoad", Having("postLoad", modules), s))
  /\ []((\E i \in 1..Len(calls) : calls[i].method = "postLoad") =>
          /\ calls \in {PostLoadCalls, Call("load", storables) \o PostLoadCalls}
          /\ readyLoad)
  /\ [][(~readyLoad /\ readyLoad') =>
          \E i \in 1..Len(calls') : calls'[i].method = "postLoad"]_vars
  /\ [][(~started /\ started') =>
          /\ readyLoad' = readyLoad
          /\ \A i \in 1..Len(startLog') : startLog'[i].ev = "onLoad"]_vars

\* a loaded start-up: load calls, postLoad calls, then readyLoad
C7_Witness ==
  /\ readyLoad
  /\ Idx("load", "cur") # {}
  /\ Idx("postLoad", "cur") # {}
  /\ deps # SourceDeps

\* C8: destroyAll calls destroyAll on the shallow instance first if there is
\* one, then destroy on every registered module once, in reverse
\* registration order; afterwards the instance is destroyed and holds no
\* module, storable or load hook.
C8_DestroyOrder ==
  [][(~destroyed /\ destroyed') =>
       LET off == IF shallow THEN 1 ELSE 0
           n == Len(modules)
       IN /\ Len(calls') = off + n
          /\ shallow => (calls'[1].method = "destroyAll"
                         /\ calls'[1].mod = "shallow")
          /\ \A i \in 1..n :
               /\ calls'[off + i].method = "destroy"
               /\ calls'[off + i].mod = modules[n + 1 - i]
          /\ modules' = <<>>
          /\ storables' = <<>>
          /\ toLoad' = <<>>
          /\ ~("modules" \in attributes')]_vars

\* a started editor was destroyed: the shallow instance, then four modules
C8_Witness ==
  /\ destroyed
  /\ Len(calls) = 1 + Cardinality(ModuleNames)
  /\ calls[1].method = "destroyAll"
  /\ calls[2].mod = deps[Len(deps)]
  /\ deps # SourceDeps

\* C9: init() on a destroyed instance clears the destroyed flag and leaves a
\* module list holding each module of deps once, in registration order, a
\* changesCount of zero and all readiness flags false; init() on a live
\* instance leaves the module lists as they are.
C9_ReInit ==
  /\ [][(destroyed /\ ~destroyed') =>
          /\ Len(modules') = Len(deps)
          /\ \A i \in 1..Len(deps) : modules'[i] = deps[i]
          /\ changesCount' = 0
          /\ ~ready' /\ ~readyLoad' /\ ~readyCanvas']_vars
  /\ [][(~destroyed /\ ~destroyed') =>
          (modules' = modules /\ storables' = storables /\ toLoad' = toLoad)]_vars

Triad(m) ==
  /\ ModuleCaps[m].storageKey
  /\ ModuleCaps[m].store
  /\ ModuleCaps[m].load

\* the components module first, then the other storables as registered
ExpectedStorables ==
  SelectSeq(modules, LAMBDA m : Triad(m) /\ m = "DomComponents")
    \o SelectSeq(modules, LAMBDA m : Triad(m) /\ m # "DomComponents")

ExpectedKeys ==
  UNION {DOMAIN ModuleStore[ExpectedStorables[i]] :
           i \in DOMAIN ExpectedStorables}

\* the value the last storable writing key k gives it
Winner(k) ==
  LET E == ExpectedStorables
      i == CHOOSE x \in DOMAIN E :
             /\ k \in DOMAIN ModuleStore[E[x]]
             /\ \A y \in DOMAIN E :
                  y > x => k \notin DOMAIN ModuleStore[E[y]]
  IN ModuleStore[E[i]][k]

ExpectedData ==
  [k \in {x \in ExpectedKeys : Winner(x) # "undefined"} |-> Winner(k)]

\* C10: on a live editor the storable list is the components module followed
\* by the other modules with all of storageKey, store and load in
\* registration order; the store routines and the load routines are called
\* in that order; and the data of a store request holds, for every key, the
\* value written by the last storable in that order.
C10_StorableOrder ==
  ~destroyed =>
    /\ storables = ExpectedStorables
    /\ (calls # <<>> /\ calls[1].method = "store") =>
         calls = Call("store", ExpectedStorables)
    /\ SelectSeq(calls, LAMBDA c : c.method = "load") \in
         {<<>>, Call("load", ExpectedStorables)}
    /\ \A i \in 1..Len(inflight) :
         inflight[i].op = "store" => inflight[i].data = ExpectedData

\* the components module was registered last and yet its store ran first
C10_Witness ==
  /\ ~destroyed
  /\ deps[Len(deps)] = "DomComponents"
  /\ deps[1] = "CssComposer"
  /\ calls # <<>>
  /\ calls[1] = [method |-> "store", mod |-> "DomComponents"]
  /\ \E i \in 1..Len(inflight) :
       inflight[i].op = "store" /\ inflight[i].data["shared"] = "AssetManager"

\* ------------------------------------------------------- selection claims
\* a call of setSelected on the live editor with one target, no listener
\* setting opts.abort
Shift == [NoOpts EXCEPT !.shiftKey = TRUE]
Ctrl == [NoOpts EXCEPT !.ctrlKey = TRUE]
UseValid(o) == [o EXCEPT !.useValid = TRUE]
Abort(o) == [o EXCEPT !.abort = TRUE]

\* what setSelected(el, opts) leaves in the Selection Set
After(el, opts, veto) == setSelected(SelCur(opts), Single(el), opts, veto)

\* the nearest selected sibling index below and above the candidate, the
\* candidate's own index on a side that has none
Lo(sel, m) ==
  LET below == {i \in SelectedIndexes(sel, collection(m)) : i < index(m)}
  IN IF below = {} THEN index(m) ELSE SetMax(below)

Hi(sel, m) ==
  LET above == {i \in SelectedIndexes(sel, collection(m)) : i > index(m)}
  IN IF above = {} THEN index(m) ELSE SetMin(above)

\* the siblings from the nearest selected one below to the nearest above
Block(sel, m) ==
  {x \in Entities : /\ collection(x) = collection(m)
                    /\ Lo(sel, m) <= index(x)
                    /\ index(x) <= Hi(sel, m)}

\* C11 (as stated): range-selecting a selectable candidate adds exactly the
\* siblings between the nearest selected sibling on each side and the
\* candidate, all of them, and nothing else.
C11_RangeAllSiblings ==
  (~destroyed /\ multipleSelection) =>
    \A el \in doc.selectable, opts \in {Shift, UseValid(Shift)} :
      /\ ~After(el, opts, Nothing).thrown
      /\ Range(After(el, opts, Nothing).selected)
           = Range(selected) \cup Block(selected, el)

\* C11 (amended): range-selecting a selectable candidate adds exactly the
\* selectable siblings between the nearest selected sibling on each side
\* and the candidate, after the entities already selected, and nothing
\* else; selected entities of other collections play no part.
C11_RangeBlock ==
  (~destroyed /\ multipleSelection) =>
    \A el \in doc.selectable, opts \in {Shift, UseValid(Shift)} :
      LET after == After(el, opts, Nothing)
      IN /\ ~after.thrown
         /\ Range(after.selected)
              = Range(selected) \cup (Block(selected, el) \cap doc.selectable)
         /\ SubSeq(after.selected, 1, Len(selected)) = selected
         /\ Len(after.selected) = Cardinality(Range(after.selected))

\* siblings [A,B,C,D,E] with B selected: range-selecting D gave <<B,C,D>>
C11_Witness ==
  /\ ~destroyed /\ multipleSelection
  /\ selected = <<"B", "C", "D">>
  /\ events = <<Notify("component:select:before", "D"),
                Notify("component:select", "B"),
                Notify("component:select", "C"),
                Notify("component:select", "D")>>
  /\ ~thrown

\* a is an ancestor of m
RECURSIVE IsAncestor(_, _)
IsAncestor(a, m) ==
  /\ m \in Entities
  /\ parent(m) # Nothing
  /\ (parent(m) = a \/ IsAncestor(a, parent(m)))

\* a is the nearest ancestor of m in the set valid
IsNearest(a, m, valid) ==
  /\ IsAncestor(a, m)
  /\ a \in valid
  /\ \A b \in Entities : IsAncestor(b, m) /\ IsAncestor(a, b) => b \notin valid

\* the entities a call notified as selected, in order
Selects(evs) ==
  LET q == SelectSeq(evs, LAMBDA e : e.ev = "component:select")
  IN [i \in 1..Len(q) |-> q[i].entity]

\* the key combinations of a call without abort
Keys == {o \in SelOpts : ~o.useValid /\ ~o.abort /\ ~o.forceChange}

\* C12: setSelected on a non-selectable entity with useValid acts on the
\* nearest selectable ancestor, as if that ancestor had been the target: in
\* plain mode the ancestor becomes the one selected entity and the only one
\* notified; without useValid the Selection Set is unchanged and nothing is
\* notified as selected.
C12_UseValid ==
  ~destroyed =>
    \A el \in Entities \ doc.selectable, opts \in Keys :
      /\ After(el, opts, Nothing).selected = selected
      /\ Selects(After(el, opts, Nothing).events) = <<>>
      /\ ~After(el, opts, Nothing).thrown
      /\ \A a \in Entities :
           IsNearest(a, el, doc.selectable) =>
             LET after == After(el, UseValid(opts), Nothing)
             IN /\ ~after.thrown
                /\ after.selected = After(a, UseValid(opts), Nothing).selected
                /\ Selects(after.events)
                     = Selects(After(a, UseValid(opts), Nothing).events)
                /\ opts = NoOpts =>
                     after.selected = <<a>> /\ Selects(after.events) = <<a>>

\* A (not selectable, its parent P neither) selected with useValid: G, the
\* nearest selectable ancestor, is the selection
C12_Witness ==
  /\ ~destroyed
  /\ doc.selectable = {"B", "D", "G"}
  /\ selected = <<"G">>
  /\ events = <<Notify("component:select:before", "A"),
                Notify("component:select", "G")>>
  /\ ~thrown

\* C13: with the control/command modifier, a selectable candidate that is
\* selected is removed and one that is not is added last, the other selected
\* entities staying in place, when multiple selection is enabled; when it is
\* disabled the candidate becomes the only selected entity.
C13_CtrlToggle ==
  ~destroyed =>
    \A el \in doc.selectable, opts \in {Ctrl, UseValid(Ctrl)} :
      LET after == After(el, opts, Nothing)
      IN /\ ~after.thrown
         /\ after.selected =
              IF ~multipleSelection THEN <<el>>
              ELSE IF \E i \in 1..Len(selected) : selected[i] = el
              THEN SelectSeq(selected, LAMBDA x : x # el)
              ELSE Append(selected, el)

\* D was selected and B, selected with the modifier, joined it
C13_Witness ==
  /\ ~destroyed /\ multipleSelection
  /\ selected = <<"D", "B">>
  /\ events = <<Notify("component:select:before", "B"),
                Notify("component:select", "B")>>
  /\ ~thrown

\* C14: a plain setSelected of one selectable candidate leaves exactly that
\* candidate selected, whatever was selected before.
C14_PlainReplace ==
  ~destroyed =>
    \A el \in doc.selectable, opts \in {NoOpts, UseValid(NoOpts)} :
      LET after == After(el, opts, Nothing)
      IN /\ ~after.thrown
         /\ after.selected = <<el>>
         /\ Selects(after.events) = <<el>>

\* a plain setSelected of C left C the one selected entity
C14_Witness ==
  /\ ~destroyed /\ multipleSelection
  /\ selected = <<"C">>
  /\ events = <<Notify("component:select:before", "C"),
                Notify("component:select", "C")>>
  /\ ~thrown

\* every combination of modifier keys and useValid, opts.abort unset
AnyKeys == {o \in SelOpts : ~o.abort /\ ~o.forceChange}

\* C15: with opts.abort set, by the caller or by a listener of the
\* before-notification, setSelected leaves the Selection Set unchanged and
\* notifies no entity as selected, whatever the other options.
C15_AbortDrops ==
  ~destroyed =>
    \A el \in Entities, opts \in AnyKeys :
      /\ After(el, Abort(opts), Nothing).selected = selected
      /\ Selects(After(el, Abort(opts), Nothing).events) = <<>>
      /\ After(el, opts, el).selected = selected
      /\ Selects(After(el, opts, el).events) = <<>>

\* the part of C15 the code keeps: with opts.abort set and useValid unset
\* the candidate is dropped
C15_AbortWithoutUseValid ==
  ~destroyed =>
    \A el \in Entities, opts \in {o \in AnyKeys : ~o.useValid} :
      /\ After(el, Abort(opts), Nothing).selected = selected
      /\ Selects(After(el, Abort(opts), Nothing).events) = <<>>
      /\ ~After(el, Abort(opts), Nothing).thrown
      /\ After(el, opts, el).selected = selected
      /\ Selects(After(el, opts, el).events) = <<>>
      /\ ~After(el, opts, el).thrown

\* targets that resolve to no entity, or to an entity outside valid that
\* has no ancestor in valid
Invalid(valid) ==
  {Nothing} \cup {el \in Entities \ valid :
                   ~\E a \in Entities : IsNearest(a, el, valid)}

\* the call left the Selection Set and the Hovered Entity alone and threw
\* nothing
Untouched(after) ==
  /\ ~after.thrown
  /\ after.selected = selected
  /\ after.hovered = componentHovered

\* C16: on a target that resolves to no entity, or to an entity that is
\* not selectable and has no selectable ancestor, every selection operation
\* throws nothing and leaves the Selection Set and the Hovered Entity
\* unchanged, under every combination of options.
C16_InvalidSelectNoOp ==
  ~destroyed =>
    \A el \in Invalid(doc.selectable) :
      /\ \A opts \in SelOpts : Untouched(After(el, opts, Nothing))
      /\ \A opts \in AddOpts :
           /\ Untouched(addSelected(SelCur(opts), <<el>>, opts))
           /\ Untouched(toggleSelected(SelCur(opts), <<el>>, opts))
      /\ Untouched(removeSelected(SelCur(NoOpts), {el}))

\* the same for setHovered, on a target that is not hoverable and has no
\* hoverable ancestor
C16_InvalidHoverNoOp ==
  ~destroyed =>
    \A el \in (Invalid(doc.hoverable) \ {Nothing}) \cup {Stray},
       opts \in HoverOpts :
      Untouched(setHovered(SelCur(opts), el, opts, Nothing))

\* the operations other than setSelected are no-ops on such a target
C16_InvalidAddRemoveToggle ==
  ~destroyed =>
    \A el \in Invalid(doc.selectable) :
      /\ \A opts \in AddOpts :
           /\ Untouched(addSelected(SelCur(opts), <<el>>, opts))
           /\ Untouched(toggleSelected(SelCur(opts), <<el>>, opts))
      /\ Untouched(removeSelected(SelCur(NoOpts), {el}))

\* the targets all of whose entities are selectable
SelectableTargets ==
  {el \in SelectTargets : Range(el.els) \subseteq doc.selectable}

\* where entity x first stands in els
FirstAt(els, x) == SetMin({i \in 1..Len(els) : els[i] = x})

\* C17: addSelected with selectable entities leaves no duplicate in the
\* Selection Set and loses no entity of it; the set grows by exactly the
\* entities of the call that were not in it, and getSelected returns the
\* entity the call inserted last (with forceChange the last entity of the
\* call, which is inserted anew), or what it returned before when the call
\* inserted nothing.
C17_AddSelected ==
  ~destroyed =>
    \A el \in SelectableTargets, opts \in AddOpts :
      LET after == addSelected(SelCur(opts), Models(el), opts)
          last == el.els[Len(el.els)]
          inserted == Range(el.els) \ Range(selected)
      IN /\ ~after.thrown
         /\ Len(after.selected) = Cardinality(Range(after.selected))
         /\ Range(after.selected) = Range(selected) \cup Range(el.els)
         /\ Len(after.selected)
              = Len(selected) + Cardinality(Range(el.els) \ Range(selected))
         /\ opts.forceChange => getSelected(after.selected) = last
         /\ (~opts.forceChange /\ inserted # {}) =>
              /\ getSelected(after.selected) \in inserted
              /\ \A y \in inserted :
                   FirstAt(el.els, y) <= FirstAt(el.els, getSelected(after.selected))
         /\ (~opts.forceChange /\ inserted = {}) =>
              getSelected(after.selected) = getSelected(selected)

\* D, A and B were added in turn: three entities, B the last selected
C17_Witness ==
  /\ ~destroyed
  /\ selected = <<"D", "A", "B">>
  /\ getSelected(selected) = "B"
  /\ events = <<Notify("component:select", "B")>>
  /\ ~thrown

\* ----------------------------------------------------------- hover claims
\* notification a comes before notification b in evs
Precedes(evs, a, b) ==
  \E i, j \in 1..Len(evs) : i < j /\ evs[i] = a /\ evs[j] = b

\* C18: the Hovered Entity is one entity or none; when setHovered replaces
\* a hovered entity X by another entity Y, 'component:unhovered' for X is
\* emitted before 'component:hovered' for Y; with forceChange, hovering the
\* entity that is hovered already emits unhovered and then hovered for it.
C18_UnhoverFirst ==
  /\ componentHovered \in Entities \cup {Nothing}
  /\ ~destroyed =>
       \A el \in Targets, opts \in HoverOpts : \A veto \in {Nothing, el} :
         LET after == setHovered(SelCur(opts), el, opts, veto)
             X == componentHovered
             Y == after.hovered
         IN /\ (X # Nothing /\ Y # Nothing /\ Y # X) =>
                 Precedes(after.events, Notify("component:unhovered", X),
                          Notify("component:hovered", Y))
            /\ (X # Nothing /\ el = X /\ opts.forceChange /\ ~opts.abort
                  /\ veto = Nothing /\ hoverable(X)) =>
                 /\ Y = X
                 /\ Precedes(after.events, Notify("component:unhovered", X),
                             Notify("component:hovered", X))

\* A was hovered and setHovered(B) replaced it
C18_Witness ==
  /\ ~destroyed
  /\ componentHovered = "B"
  /\ events = <<Notify("component:hover:before", "B"),
                Notify("component:unhovered", "A"),
                Notify("component:hovered", "B"),
                Notify("component:hover", "B")>>

\* ------------------------------------------------------- teardown claims
\* C19: once destroyed, and until it is initialized again, the instance is
\* inert: no callback, timer or operation writes the Change Counter or a
\* readiness flag, calls a module, or changes the Selection Set or the
\* Hovered Entity.
C19_DestroyedInert ==
  [][(destroyed /\ destroyed') =>
       /\ calls' = <<>>
       /\ changesCount' = changesCount
       /\ <<readyLoad, readyCanvas, ready>>' = <<readyLoad, readyCanvas, ready>>
       /\ <<selected, componentHovered>>' = <<selected, componentHovered>>]_vars

\* C19, errors: on a destroyed instance no timer, completion callback or
\* operation throws
C19_DestroyedNoError ==
  [][(destroyed /\ destroyed') => ~thrown']_vars

\* ------------------------------------------------- two editor instances
\* an increment of instance em is pending
IncPending(em) ==
  \E i \in 1..Len(timers) : timers[i].kind = "inc" /\ timers[i].em = em

\* C20: a notification of one instance cancels no pending increment of the
\* other: an instance that has notifications awaiting their increment has
\* its increment pending, so that each instance's counter is raised by one.
C20_Isolated ==
  /\ burst > 0 => IncPending(Main)
  /\ peer.burst > 0 => IncPending(Peer)

\* ---------------------------------------------------------- skip claims
\* C21: between two calls the change-suppression flag is false: skip(clb)
\* has reset it whether clb returned or failed.
C21_FlagReset == ~skipFlag

\* the part of C21 the code keeps: a skip whose callback returns leaves the
\* flag false
C21_ResetOnReturn ==
  [][\A clb \in Clbs : skip(clb, FALSE) => ~skipFlag']_vars

\* the last part of C21: no notification made inside a skip is counted
C21_NothingCountedInSkip ==
  [][\A clb \in Clbs, throws \in BOOLEAN :
       skip(clb, throws) => (burst' = burst /\ timers' = timers)]_vars

\* the increments pending, in order
Incs(q) == SelectSeq(q, LAMBDA t : t.kind = "inc")

\* C22: a notification that is ignored (skip flag, temporary, noCount,
\* avoidStore, editor not ready) leaves the pending increment and the
\* counter as they are, inside skip() too; a qualifying one leaves exactly
\* one increment pending, carrying its options; and the increment, when
\* its timer fires, adds one to the counter whether or not these options
\* hold unset.
C22_IgnoredKeepsPending ==
  /\ [](\A opt \in Opts :
          LET h == notify(Handler, opt)
          IN IF Skipped(skipFlag, opt)
             THEN h.timers = timers /\ h.burst = burst
             ELSE h.ok => /\ Len(Incs(h.timers)) = 1
                          /\ Incs(h.timers)[1].opts = opt
                          /\ h.burst = burst + 1)
  /\ [](\A clb \in Clbs :
          (\A i \in 1..Len(clb) : clb[i].call # "skip") =>
            LET h == runClb([Handler EXCEPT !.flag = TRUE], clb, Len(clb))
            IN h.timers = timers /\ h.burst = burst)
  /\ [][/\ lastOp'.name = "ignored" =>
            /\ timers' = timers
            /\ burst' = burst
            /\ changesCount' = changesCount
       /\ lastOp'.name = "timedInterval" =>
            /\ burst >= 1
            /\ Incs(timers') = <<>>
            /\ changesCount' = changesCount + 1
            /\ "changesCount" \in attributes']_vars

\* a notification was ignored on a ready editor while the increment of an
\* earlier qualifying one was pending, and the increment is pending still
C22_Witness ==
  /\ lastOp.name = "ignored"
  /\ lastOp.n >= 1
  /\ ready /\ ~destroyed
  /\ Len(Incs(timers)) = 1
  /\ burst = lastOp.n

\* ------------------------------------------------- the Selection Set
\* C23: the Selection Set holds selectable entities only, whatever calls of
\* setSelected, addSelected, toggleSelected and removeSelected were made.
C23_OnlySelectable ==
  /\ Range(selected) \subseteq doc.selectable
  /\ ~destroyed =>
       \A el \in SelectTargets, opts \in AddOpts :
         /\ Range(addSelected(SelCur(opts), Models(el), opts).selected)
              \subseteq doc.selectable
         /\ Range(toggleSelected(SelCur(opts), Models(el), opts).selected)
              \subseteq doc.selectable

\* B was selected and D was range-selected: C, between them and not
\* selectable, was passed over
C23_Witness ==
  /\ ~destroyed /\ multipleSelection
  /\ "C" \notin doc.selectable
  /\ selected = <<"B", "D">>
  /\ events = <<Notify("component:select:before", "D"),
                Notify("component:select", "B"),
                Notify("component:select", "D")>>
  /\ ~thrown

====
